---- MODULE Spec2Model ----
(***************************************************************************)
(* Verification model of the mining node core:                             *)
(*   PART I  - the WorkEngine broadcast channel                            *)
(*             (open/bosminer/src/work.rs)                                 *)
(*   PART II - the cgminer-API command dispatcher                          *)
(*             (open/protocols/cgminer-api/src/command.rs)                 *)
(*   PART III - the Stratum V2 message header                               *)
(*             (open/protocols/stratum/src/v2/framing.rs)                  *)
(* Each part has its own specification over the module's variables: Spec   *)
(* and FairSpec run the engine channel, SpecCommand runs the dispatcher,   *)
(* SpecFraming builds, packs and unpacks headers.                          *)
(***************************************************************************)
EXTENDS Integers, Sequences, FiniteSets, TLC

(***************************************************************************)
(* Bounds of the model.                                                    *)
(***************************************************************************)
\* receiver handles that can exist over a run: the original and its clones
NumReceivers == 2
\* non-empty pieces of a command string handed to the dispatcher
MaxPieces == 3

(***************************************************************************)
(* PART I - work.rs: EngineSender / EngineReceiver over a watch channel.   *)
(***************************************************************************)
VARIABLES
    slot,       \* the value held by the watch channel (a DynWorkEngine)
    closed,     \* the channel's closed mark, set when the Sender is dropped
    sender,     \* "alive" | "dropped" | "panicked"
    pc,         \* per receiver handle: where it is in get_engine
    seen,       \* per receiver handle: it has observed the current version
    engine,     \* per receiver handle: the local `engine` of get_engine
    result,     \* per receiver handle: what get_engine returned (<<>> = None)
    \* history variables, read by the properties only
    latest,     \* the engine handed to the last successful broadcast
    total,      \* successful broadcasts so far, counted up to 2
    anyLive,    \* a non-exhausted engine has been broadcast
    unread,     \* per handle: broadcasts since its last read, counted up to 2
    skipped,    \* the handle whose read, the last step taken, came after two or
                \* more broadcasts since its previous read (0: no such handle)
    fresh       \* per handle: a clone whose first get_engine has not returned

engineVars == <<slot, closed, sender, pc, seen, engine, result,
                latest, total, anyLive, unread, skipped, fresh>>

\* the state of the command dispatcher (PART II)
VARIABLES
    dpc,          \* where Receiver::handle is: "idle" | "dispatch" | "handler" | "done"
    request,      \* the Request being handled
    commands_vec, \* handle's local `commands`: the non-empty pieces of the command
    multi,        \* the multi_command flag handle passes to handle_single
    idx,          \* the piece the batch loop is at (1 in single mode)
    cur,          \* the `command` argument of the running handle_single
    responses,    \* handle's local MultiResponse
    response,     \* the ResponseType handle returned
    \* history variable, read by the properties only
    calls         \* the calls made so far: handle_single, check_asc, handlers

cmdVars == <<dpc, request, commands_vec, multi, idx, cur, responses, response, calls>>

\* the state of the header codec (PART III)
VARIABLES
    fpc,          \* "idle" | "built" | "aborted" | "packed" | "roundtrip" |
                  \* "received" | "unpacked"
    new_args,     \* the arguments of the Header::new that ran
    header,       \* the Header that Header::new built
    buffer,       \* the 4 bytes pack produced, or 4 bytes taken from the wire
    unpacked      \* the Result of Header::unpack_from_slice(buffer)

framingVars == <<fpc, new_args, header, buffer, unpacked>>

nonEngineVars == <<cmdVars, framingVars>>
nonCmdVars == <<engineVars, framingVars>>
nonFramingVars == <<engineVars, cmdVars>>

vars == <<engineVars, cmdVars, framingVars>>

Receivers == 1..NumReceivers

\* engine::ExhaustedWork, the engine that is exhausted all the time
ExhaustedWork == [id |-> "ExhaustedWork", exhausted |-> TRUE]

\* the work engines a job source can hand to broadcast: two engines that
\* provide work, and the exhausted one
Engines ==
    { ExhaustedWork,
      [id |-> "E1", exhausted |-> FALSE],
      [id |-> "E2", exhausted |-> FALSE] }

\* hal::WorkEngine::is_exhausted
is_exhausted(e) == e.exhausted

\* Option<DynWorkEngine>
None == <<>>
Some(e) == <<e>>

\* the engine engine_channel() puts in the slot
InitialEngine_Live == [id |-> "E1", exhausted |-> FALSE]
InitialEngine == ExhaustedWork

Alive(r) == pc[r] \in {"idle", "check", "await", "returned"}
AnyReceiverAlive == \E r \in Receivers : Alive(r)

\* engine_channel(): watch::channel(ExhaustedWork); one receiver handle, which
\* has not yet observed the initial value
InitEngine ==
    /\ slot = InitialEngine
    /\ closed = FALSE
    /\ sender = "alive"
    /\ pc = [r \in Receivers |-> IF r = 1 THEN "idle" ELSE "unborn"]
    /\ seen = [r \in Receivers |-> FALSE]
    /\ engine = [r \in Receivers |-> ExhaustedWork]
    /\ result = [r \in Receivers |-> None]
    /\ latest = InitialEngine
    /\ total = 0
    /\ anyLive = FALSE
    /\ unread = [r \in Receivers |-> 0]
    /\ skipped = 0
    /\ fresh = [r \in Receivers |-> FALSE]

\* a broadcast that waits until every live receiver has observed the value
broadcast_WaitsForReaders(e) ==
    /\ UNCHANGED nonEngineVars
    /\ skipped' = 0
    /\ sender = "alive"
    /\ \A r \in Receivers : Alive(r) => seen[r]
    /\ AnyReceiverAlive
    /\ slot' = e
    /\ seen' = [r \in Receivers |-> FALSE]
    /\ latest' = e
    /\ total' = (IF total < 2 THEN total + 1 ELSE 2)
    /\ anyLive' = (anyLive \/ ~is_exhausted(e))
    /\ unread' = [r \in Receivers |-> IF unread[r] < 2 THEN unread[r] + 1 ELSE 2]
    /\ UNCHANGED <<closed, sender, pc, engine, result, fresh>>

\* a broadcast that keeps a value some receiver has not yet observed
broadcast_KeepUnread(e) ==
    /\ UNCHANGED nonEngineVars
    /\ skipped' = 0
    /\ sender = "alive"
    /\ AnyReceiverAlive
    /\ slot' = IF total > 0 /\ \E r \in Receivers : Alive(r) /\ ~seen[r]
               THEN slot ELSE e
    /\ seen' = [r \in Receivers |-> FALSE]
    /\ latest' = e
    /\ total' = (IF total < 2 THEN total + 1 ELSE 2)
    /\ anyLive' = (anyLive \/ ~is_exhausted(e))
    /\ unread' = [r \in Receivers |-> IF unread[r] < 2 THEN unread[r] + 1 ELSE 2]
    /\ UNCHANGED <<closed, sender, pc, engine, result, fresh>>

\* a broadcast that replaces the value without notifying the receivers: a
\* receiver that has observed the previous value is not told of the new one
broadcast_NoNotify(e) ==
    /\ UNCHANGED nonEngineVars
    /\ skipped' = 0
    /\ sender = "alive"
    /\ \/ /\ AnyReceiverAlive
          /\ slot' = e
          /\ latest' = e
          /\ total' = (IF total < 2 THEN total + 1 ELSE 2)
          /\ anyLive' = (anyLive \/ ~is_exhausted(e))
          /\ unread' = [r \in Receivers |-> IF unread[r] < 2 THEN unread[r] + 1 ELSE 2]
          /\ UNCHANGED <<closed, sender, pc, seen, engine, result, fresh>>
       \/ /\ ~AnyReceiverAlive
          /\ sender' = "panicked"
          /\ UNCHANGED <<slot, closed, pc, seen, engine, result,
                         latest, total, anyLive, unread, fresh>>

\* a broadcast that succeeds even when every receiver handle is gone
broadcast_NeverFails(e) ==
    /\ UNCHANGED nonEngineVars
    /\ skipped' = 0
    /\ sender = "alive"
    /\ slot' = e
    /\ seen' = [r \in Receivers |-> FALSE]
    /\ latest' = e
    /\ total' = (IF total < 2 THEN total + 1 ELSE 2)
    /\ anyLive' = (anyLive \/ ~is_exhausted(e))
    /\ unread' = [r \in Receivers |-> IF unread[r] < 2 THEN unread[r] + 1 ELSE 2]
    /\ UNCHANGED <<closed, sender, pc, engine, result, fresh>>

\* EngineSender::broadcast(engine): watch::Sender::broadcast replaces the value,
\* makes it unobserved for every receiver and wakes them; with no receiver
\* handle left it returns Err and .expect panics
broadcast(e) ==
    /\ UNCHANGED nonEngineVars
    /\ skipped' = 0
    /\ sender = "alive"
    /\ \/ /\ AnyReceiverAlive
          /\ slot' = e
          /\ seen' = [r \in Receivers |-> FALSE]
          /\ latest' = e
          /\ total' = (IF total < 2 THEN total + 1 ELSE 2)
          /\ anyLive' = (anyLive \/ ~is_exhausted(e))
          /\ unread' = [r \in Receivers |-> IF unread[r] < 2 THEN unread[r] + 1 ELSE 2]
          /\ UNCHANGED <<closed, sender, pc, engine, result, fresh>>
       \/ /\ ~AnyReceiverAlive
          /\ sender' = "panicked"
          /\ UNCHANGED <<slot, closed, pc, seen, engine, result,
                         latest, total, anyLive, unread, fresh>>

\* a sender whose drop does not mark the channel closed
drop_sender_NoClose ==
    /\ UNCHANGED nonEngineVars
    /\ skipped' = 0
    /\ sender = "alive"
    /\ sender' = "dropped"
    /\ UNCHANGED <<slot, closed, pc, seen, engine, result,
                   latest, total, anyLive, unread, fresh>>

\* drop(EngineSender): watch::Sender's Drop marks the channel closed and wakes
\* the receivers
drop_sender ==
    /\ UNCHANGED nonEngineVars
    /\ skipped' = 0
    /\ sender = "alive"
    /\ sender' = "dropped"
    /\ closed' = AnyReceiverAlive
    /\ UNCHANGED <<slot, pc, seen, engine, result,
                   latest, total, anyLive, unread, fresh>>

\* #[derive(Clone)] EngineReceiver: watch::Receiver::clone copies the observed
\* version of the handle it is cloned from
clone(r, q) ==
    /\ UNCHANGED nonEngineVars
    /\ skipped' = 0
    /\ pc[r] \in {"idle", "returned"}
    /\ pc[q] = "unborn"
    /\ pc' = [pc EXCEPT ![q] = "idle"]
    /\ seen' = [seen EXCEPT ![q] = seen[r]]
    /\ unread' = [unread EXCEPT ![q] = total]
    /\ fresh' = [fresh EXCEPT ![q] = TRUE]
    /\ UNCHANGED <<slot, closed, sender, engine, result,
                   latest, total, anyLive>>

\* drop(EngineReceiver), between two calls of get_engine
drop_receiver(r) ==
    /\ UNCHANGED nonEngineVars
    /\ skipped' = 0
    /\ pc[r] \in {"idle", "returned"}
    /\ pc' = [pc EXCEPT ![r] = "dropped"]
    /\ result' = [result EXCEPT ![r] = None]
    /\ fresh' = [fresh EXCEPT ![r] = FALSE]
    /\ unread' = [unread EXCEPT ![r] = 0]
    /\ seen' = [seen EXCEPT ![r] = FALSE]
    /\ UNCHANGED <<slot, closed, sender, engine, latest, total, anyLive>>

\* a get_engine that starts by awaiting the next value instead of peeking
get_engine_NoPeek(r) ==
    /\ UNCHANGED nonEngineVars
    /\ skipped' = 0
    /\ pc[r] \in {"idle", "returned"}
    /\ pc' = [pc EXCEPT ![r] = "await"]
    /\ result' = [result EXCEPT ![r] = None]
    /\ UNCHANGED <<slot, closed, sender, seen, engine,
                   latest, total, anyLive, unread, fresh>>

\* get_engine, line 68: let mut engine = self.inner.get_ref().clone();
\* the peek reads the slot and leaves the observed version alone
get_engine(r) ==
    /\ UNCHANGED nonEngineVars
    /\ pc[r] \in {"idle", "returned"}
    /\ pc' = [pc EXCEPT ![r] = "check"]
    /\ engine' = [engine EXCEPT ![r] = slot]
    /\ result' = [result EXCEPT ![r] = None]
    /\ skipped' = (IF unread[r] = 2 THEN r ELSE 0)
    /\ unread' = [unread EXCEPT ![r] = 0]
    /\ UNCHANGED <<slot, closed, sender, seen, latest, total, anyLive, fresh>>

\* a loop head that returns the engine without asking is_exhausted
check_engine_NoGate(r) ==
    /\ UNCHANGED nonEngineVars
    /\ pc[r] = "check"
    /\ pc' = [pc EXCEPT ![r] = "returned"]
    /\ result' = [result EXCEPT ![r] = Some(engine[r])]
    /\ engine' = [engine EXCEPT ![r] = ExhaustedWork]
    /\ skipped' = 0
    /\ fresh' = [fresh EXCEPT ![r] = FALSE]
    /\ UNCHANGED <<slot, closed, sender, seen, latest, total, anyLive, unread>>

\* get_engine, lines 70-73: if !engine.is_exhausted() { return Some(engine) },
\* else go on to await the next value
check_engine(r) ==
    /\ UNCHANGED nonEngineVars
    /\ pc[r] = "check"
    /\ \/ /\ ~is_exhausted(engine[r])
          /\ pc' = [pc EXCEPT ![r] = "returned"]
          /\ result' = [result EXCEPT ![r] = Some(engine[r])]
          /\ fresh' = [fresh EXCEPT ![r] = FALSE]
       \/ /\ is_exhausted(engine[r])
          /\ pc' = [pc EXCEPT ![r] = "await"]
          /\ UNCHANGED <<result, fresh>>
    /\ engine' = [engine EXCEPT ![r] = ExhaustedWork]
    /\ skipped' = 0
    /\ UNCHANGED <<slot, closed, sender, seen, latest, total, anyLive, unread>>

\* a receiver whose cursor is shared by all handles
await_next_SharedCursor(r) ==
    /\ UNCHANGED nonEngineVars
    /\ pc[r] = "await"
    /\ \/ /\ ~seen[r]
          /\ seen' = [q \in Receivers |-> TRUE]
          /\ engine' = [engine EXCEPT ![r] = slot]
          /\ pc' = [pc EXCEPT ![r] = "check"]
          /\ skipped' = (IF unread[r] = 2 THEN r ELSE 0)
          /\ unread' = [unread EXCEPT ![r] = 0]
          /\ UNCHANGED <<result, fresh>>
       \/ /\ seen[r]
          /\ closed
          /\ pc' = [pc EXCEPT ![r] = "returned"]
          /\ result' = [result EXCEPT ![r] = None]
          /\ fresh' = [fresh EXCEPT ![r] = FALSE]
          /\ skipped' = 0
          /\ UNCHANGED <<seen, engine, unread>>
    /\ UNCHANGED <<slot, closed, sender, latest, total, anyLive>>

\* get_engine, lines 74-79: match await!(self.inner.next()). The stream yields
\* the slot's value when it is unobserved, end of stream when everything is
\* observed and the channel is closed, and is pending (the call stays
\* suspended) otherwise
await_next(r) ==
    /\ UNCHANGED nonEngineVars
    /\ pc[r] = "await"
    /\ \/ /\ ~seen[r]
          /\ seen' = [seen EXCEPT ![r] = TRUE]
          /\ engine' = [engine EXCEPT ![r] = slot]
          /\ pc' = [pc EXCEPT ![r] = "check"]
          /\ skipped' = (IF unread[r] = 2 THEN r ELSE 0)
          /\ unread' = [unread EXCEPT ![r] = 0]
          /\ UNCHANGED <<result, fresh>>
       \/ /\ seen[r]
          /\ closed
          /\ pc' = [pc EXCEPT ![r] = "returned"]
          /\ result' = [result EXCEPT ![r] = None]
          /\ fresh' = [fresh EXCEPT ![r] = FALSE]
          /\ skipped' = 0
          /\ UNCHANGED <<seen, engine, unread>>
    /\ UNCHANGED <<slot, closed, sender, latest, total, anyLive>>

\* the call is suspended: it awaits the next value and the stream is pending
Suspended(r) == pc[r] = "await" /\ seen[r] /\ ~closed

NextEngine ==
    \/ \E e \in Engines : broadcast(e)
    \/ drop_sender
    \/ \E r, q \in Receivers : clone(r, q)
    \/ \E r \in Receivers : drop_receiver(r)
    \/ \E r \in Receivers : get_engine(r)
    \/ \E r \in Receivers : check_engine(r)
    \/ \E r \in Receivers : await_next(r)


(***************************************************************************)
(* PART II - command.rs: Receiver::handle and Receiver::handle_single.     *)
(***************************************************************************)

\* A command string is held as its sequence of tokens: a "+" or a maximal run
\* of other characters; AsStr is the string itself.
RECURSIVE AsStr(_)
AsStr(text) == IF text = <<>> THEN "" ELSE Head(text) \o AsStr(Tail(text))

\* json::Value of the `parameter` field, Option<&json::Value>: absent, an
\* integer hi * 2^16 + lo (0 <= lo < 2^16), or a string
NoParam == [t |-> "absent", hi |-> 0, lo |-> 0, s |-> ""]
IntParam(hi, lo) == [t |-> "int", hi |-> hi, lo |-> lo, s |-> ""]
StrParam(x) == [t |-> "str", hi |-> 0, lo |-> 0, s |-> x]

\* the requests the dispatcher is given
InputNames == {"pools", "asc", "version", "check", "nope"}
ParameterStrings ==
    {"pools", "devs", "edevs", "summary", "config", "devdetails", "stats",
     "estats", "coin", "asccount", "asc", "lcd", "version", "check",
     "nope", "POOLS"}
Parameters ==
    {NoParam, IntParam(0, 3), IntParam(32767, 65535), IntParam(32768, 0),
     IntParam(-32769, 65535)} \cup { StrParam(x) : x \in ParameterStrings }
PieceSeqs == UNION {[1..n -> InputNames] : n \in 0..MaxPieces}
RECURSIVE Joined(_)
Joined(ps) ==
    IF Len(ps) <= 1 THEN ps ELSE <<Head(ps), "+">> \o Joined(Tail(ps))
CommandTexts ==
    { lead \o Joined(ps) \o trail :
        lead \in {<<>>, <<"+">>, <<"+", "+">>}, ps \in PieceSeqs,
        trail \in {<<>>, <<"+">>} }
\* Request.value: `command` is a string or is missing (or no string)
Requests ==
    [command : {[str |-> FALSE, text |-> <<>>]}
                 \cup {[str |-> TRUE, text |-> t] : t \in CommandTexts},
     parameter : Parameters]
NoRequest == [command |-> [str |-> FALSE, text |-> <<>>], parameter |-> NoParam]

\* response::Dispatch: a response body or an error body
Error(code, name) == [ok |-> FALSE, kind |-> code, name |-> name, data |-> <<>>]
AccessDeniedCmd(name) == Error("AccessDeniedCmd", name)
Body(kind, data) == [ok |-> TRUE, kind |-> kind, name |-> "", data |-> data]
NoDispatch == Error("", "")

\* HandlerType::has_parameters with Check taken for parameter-less
has_parameters_CheckFree(handler) ==
    handler = "Parameter"

\* HandlerType::has_parameters
has_parameters(handler) ==
    CASE handler = "ParameterLess" -> FALSE
      [] handler = "Parameter" -> TRUE
      [] handler = "Version" -> FALSE
      [] handler = "Check" -> TRUE

\* the 12 generic commands with the Handler method each one calls
GenericMethods ==
    [pools |-> "handle_pools", devs |-> "handle_devs", edevs |-> "handle_edevs",
     summary |-> "handle_summary", config |-> "handle_config",
     devdetails |-> "handle_dev_details", stats |-> "handle_stats",
     estats |-> "handle_estats", coin |-> "handle_coin",
     asccount |-> "handle_asc_count", asc |-> "handle_asc", lcd |-> "handle_lcd"]

\* a table in which the name "nope" is registered too
commands_WithNope ==
    [c \in DOMAIN GenericMethods \cup {"version", "check", "nope"} |->
        CASE c = "version" ->
                [handler |-> "Version", method |-> "", parameter_check |-> FALSE]
          [] c = "check" ->
                [handler |-> "Check", method |-> "", parameter_check |-> FALSE]
          [] c = "asc" ->
                [handler |-> "Parameter", method |-> GenericMethods[c],
                 parameter_check |-> TRUE]
          [] c = "nope" ->
                [handler |-> "ParameterLess", method |-> "handle_nope",
                 parameter_check |-> FALSE]
          [] OTHER ->
                [handler |-> "ParameterLess", method |-> GenericMethods[c],
                 parameter_check |-> FALSE]]

\* Receiver.commands, built by Receiver::new: name -> Descriptor
commands ==
    [c \in DOMAIN GenericMethods \cup {"version", "check"} |->
        CASE c = "version" ->
                [handler |-> "Version", method |-> "", parameter_check |-> FALSE]
          [] c = "check" ->
                [handler |-> "Check", method |-> "", parameter_check |-> FALSE]
          [] c = "asc" ->
                [handler |-> "Parameter", method |-> GenericMethods[c],
                 parameter_check |-> TRUE]
          [] OTHER ->
                [handler |-> "ParameterLess", method |-> GenericMethods[c],
                 parameter_check |-> FALSE]]

\* ValueExt::is_i32: an integer that fits a signed 32-bit integer
is_i32(value) == value.t = "int" /\ value.hi >= -32768 /\ value.hi <= 32767

\* a check_asc that accepts every parameter that is present
check_asc_AnyPresent(command, parameter) ==
    IF parameter.t # "absent"
    THEN Body("", <<>>)
    ELSE Error("MissingAscParameter", "")

\* Receiver::check_asc
check_asc(command, parameter) ==
    IF parameter.t # "absent" /\ is_i32(parameter)
    THEN Body("", <<>>)
    ELSE Error("MissingAscParameter", "")

\* Receiver::handle_version
handle_version == Body("Version", <<"miner_signature", "miner_version", "API_VERSION">>)

\* response::Bool from the Option that commands.get returns
BoolFrom(found) == IF found THEN "Y" ELSE "N"

\* a handle_check that takes every string for a command that exists
handle_check_AnyString(parameter) ==
    IF parameter.t = "absent"
    THEN Error("MissingCheckCmd", "")
    ELSE LET found == BoolFrom(parameter.t = "str")
         IN  Body("Check", <<found, found>>)

\* Receiver::handle_check: the data of the body are <<exists, access>>
handle_check(parameter) ==
    IF parameter.t = "absent"
    THEN Error("MissingCheckCmd", "")
    ELSE LET found == IF parameter.t = "str"
                      THEN BoolFrom(parameter.s \in DOMAIN commands)
                      ELSE "N"
         IN  Body("Check", <<found, found>>)

\* what a handler of the host returns: its typed response or its typed error
HandlerOk(method) == Body(method, <<>>)
HandlerErr(method) == Error("HandlerError", method)

\* Dispatch::into_response(T::when(), description) in get_single_response
into_response(dispatch) ==
    [when |-> "T::when()", description |-> "miner_signature miner_version",
     body |-> dispatch]

\* MultiResponse::add_response
add_response(rs, name, resp) == Append(rs, [name |-> name, response |-> resp])

\* command.split('+'): the pieces between the '+', empty ones included
RECURSIVE split(_)
split(text) ==
    IF text = <<>> THEN <<"">>
    ELSE LET rest == split(Tail(text))
         IN  IF Head(text) = "+"
             THEN <<"">> \o rest
             ELSE <<Head(text) \o Head(rest)>> \o Tail(rest)

\* the split without the filter of the empty pieces
split_nonempty_KeepEmpty(text) ==
    split(text)

\* lines 316-319: .split('+').filter(|command| command.len() > 0).collect()
split_nonempty(text) == SelectSeq(split(text), LAMBDA c : c # "")

\* a batch loop that walks the pieces from the last to the first
piece_at_Reversed(v, i) == v[Len(v) + 1 - i]

\* for command in commands: the piece the batch loop hands to handle_single
piece_at(v, i) == v[i]

Call(op, name, piece, parameter, multi_command) ==
    [op |-> op, name |-> name, piece |-> piece, parameter |-> parameter,
     multi |-> multi_command]

InitCommand ==
    /\ dpc = "idle"
    /\ request = NoRequest
    /\ commands_vec = <<>>
    /\ multi = FALSE
    /\ idx = 0
    /\ cur = ""
    /\ responses = <<>>
    /\ response = [multi |-> FALSE, single |-> into_response(NoDispatch), entries |-> <<>>]
    /\ calls = <<>>

Single(dispatch) ==
    [multi |-> FALSE, single |-> into_response(dispatch), entries |-> <<>>]
Multi(rs) ==
    [multi |-> TRUE, single |-> into_response(NoDispatch), entries |-> rs]

\* Receiver::handle up to its first handle_single: lines 307-326
handle(req) ==
    /\ UNCHANGED nonCmdVars
    /\ dpc = "idle"
    /\ request' = req
    /\ calls' = calls
    /\ responses' = <<>>
    /\ IF ~req.command.str
       THEN /\ response' = Single(Error("MissingCommand", ""))
            /\ dpc' = "done"
            /\ UNCHANGED <<commands_vec, multi, idx, cur>>
       ELSE LET v == split_nonempty(req.command.text)
            IN  /\ commands_vec' = v
                /\ IF Len(v) = 0
                   THEN /\ response' = Single(Error("InvalidCommand", ""))
                        /\ dpc' = "done"
                        /\ UNCHANGED <<multi, idx, cur>>
                   ELSE IF Len(v) = 1
                   THEN /\ multi' = FALSE
                        /\ idx' = 1
                        /\ cur' = AsStr(req.command.text)
                        /\ dpc' = "dispatch"
                        /\ UNCHANGED response
                   ELSE /\ multi' = TRUE
                        /\ idx' = 1
                        /\ cur' = piece_at(v, 1)
                        /\ dpc' = "dispatch"
                        /\ UNCHANGED response

\* the end of one handle_single: get_single_response, and in a batch
\* add_response and the next turn of the loop (lines 298, 325, 329-335)
Deliver(dispatch) ==
    IF ~multi
    THEN /\ response' = Single(dispatch)
         /\ dpc' = "done"
         /\ UNCHANGED <<responses, idx, cur>>
    ELSE LET rs == add_response(responses, cur, into_response(dispatch))
         IN  /\ responses' = rs
             /\ IF idx < Len(commands_vec)
                THEN /\ idx' = idx + 1
                     /\ cur' = piece_at(commands_vec, idx + 1)
                     /\ dpc' = "dispatch"
                     /\ UNCHANGED response
                ELSE /\ response' = Multi(rs)
                     /\ dpc' = "done"
                     /\ UNCHANGED <<idx, cur>>

\* Receiver::handle_single(cur, parameter, multi), lines 271-296, up to the
\* point where a handler of the host is awaited
handle_single ==
    /\ UNCHANGED nonCmdVars
    /\ dpc = "dispatch"
    /\ UNCHANGED <<request, commands_vec, multi>>
    /\ LET parameter == request.parameter
           entered == Append(calls, Call("handle_single", cur, idx, parameter, multi))
       IN  IF cur \notin DOMAIN commands
           THEN /\ calls' = entered
                /\ Deliver(Error("InvalidCommand", ""))
           ELSE LET descriptor == commands[cur]
                IN  IF multi /\ has_parameters(descriptor.handler)
                    THEN /\ calls' = entered
                         /\ Deliver(AccessDeniedCmd(cur))
                    ELSE LET check_result ==
                                 IF descriptor.parameter_check
                                 THEN check_asc(cur, parameter)
                                 ELSE Body("", <<>>)
                             checked ==
                                 IF descriptor.parameter_check
                                 THEN Append(entered,
                                        Call("check_asc", cur, idx, parameter, multi))
                                 ELSE entered
                         IN  IF ~check_result.ok
                             THEN /\ calls' = checked
                                  /\ Deliver(check_result)
                             ELSE CASE descriptor.handler \in {"ParameterLess", "Parameter"} ->
                                         /\ calls' = Append(checked,
                                               Call(descriptor.method, cur, idx,
                                                    IF descriptor.handler = "Parameter"
                                                    THEN parameter ELSE NoParam, multi))
                                         /\ dpc' = "handler"
                                         /\ UNCHANGED <<responses, response, idx, cur>>
                                    [] descriptor.handler = "Version" ->
                                         /\ calls' = checked
                                         /\ Deliver(handle_version)
                                    [] descriptor.handler = "Check" ->
                                         /\ calls' = checked
                                         /\ Deliver(handle_check(parameter))

\* handle().await / handle(parameter).await completes: the host's handler
\* returns Ok(response) or Err(error), lines 282-283 and 298
handler_returns(ok) ==
    /\ UNCHANGED nonCmdVars
    /\ dpc = "handler"
    /\ UNCHANGED <<request, commands_vec, multi>>
    /\ LET method == commands[cur].method
       IN  /\ calls' = Append(calls, Call("return", method, idx, NoParam, multi))
           /\ Deliver(IF ok THEN HandlerOk(method) ELSE HandlerErr(method))

NextCommand ==
    \/ dpc = "idle" /\ \E req \in Requests : handle(req)
    \/ handle_single
    \/ \E ok \in BOOLEAN : handler_returns(ok)

(***************************************************************************)
(* PART III - framing.rs: the 4-byte header of a Stratum V2 message.       *)
(***************************************************************************)

\* enum MessageType with its PrimitiveEnum_u8 identifiers
MessageTypeId ==
    [SetupMiningConnection |-> 0, SetupMiningConnectionSuccess |-> 1,
     SetupMiningConnectionError |-> 2, OpenChannel |-> 3,
     OpenChannelSuccess |-> 4, OpenChannelError |-> 5, UpdateChannel |-> 6,
     UpdateChannelError |-> 7, NewMiningJob |-> 8, SetTarget |-> 9,
     SetNewPrevHash |-> 10, SubmitShares |-> 11, SubmitSharesSuccess |-> 12,
     SubmitSharesError |-> 13]

MessageType == DOMAIN MessageTypeId

\* PrimitiveEnum::to_primitive
to_primitive(t) == MessageTypeId[t]

\* a from_primitive that takes every unknown identifier for the first type
from_primitive_Lenient(b) ==
    IF \E t \in MessageType : MessageTypeId[t] = b
    THEN <<CHOOSE t \in MessageType : MessageTypeId[t] = b>>
    ELSE <<"SetupMiningConnection">>

\* PrimitiveEnum::from_primitive: Some(type) for a known identifier, else None
from_primitive(b) ==
    IF \E t \in MessageType : MessageTypeId[t] = b
    THEN <<CHOOSE t \in MessageType : MessageTypeId[t] = b>>
    ELSE <<>>

\* a usize (64 bits) in three limbs: value = hi * 2^32 + mid * 2^24 + low,
\* with low the bits 0-23, mid the bits 24-31 and hi the bits 32-63
Usize(hi, mid, low) == [hi |-> hi, mid |-> mid, low |-> low]

\* a <= b on usize
UsizeLe(a, b) ==
    \/ a.hi < b.hi
    \/ a.hi = b.hi /\ a.mid < b.mid
    \/ a.hi = b.hi /\ a.mid = b.mid /\ a.low <= b.low

\* `msg_length as u32`: the low 32 bits, in the limbs mid and low
as_u32(n) == [mid |-> n.mid, low |-> n.low]

\* the literal 0xffffff of the assertion in Header::new
MaxMsgLength == Usize(0, 0, 16777215)

\* the values a byte of a sampled length takes
ByteSamples == {0, 1, 170, 187, 204, 255}

\* msg_length arguments within the 24 bits: every combination of the sampled
\* bytes
LengthsInRange ==
    { Usize(0, 0, b2 * 65536 + b1 * 256 + b0) :
        b0 \in ByteSamples, b1 \in ByteSamples, b2 \in ByteSamples }

\* msg_length arguments above 2^24 - 1: bits set among the bits 24-31, among
\* the bits 32-63, or both
LengthsTooLarge ==
    { Usize(h[1], h[2], low) :
        h \in {<<0, 1>>, <<0, 255>>, <<1, 0>>, <<1, 1>>},
        low \in {0, 5, 11189196, 16777215} }

Lengths == LengthsInRange \cup LengthsTooLarge

\* 4-byte buffers off the wire: every first byte, with sampled length bytes
WireBuffers ==
    { <<b, l[1], l[2], l[3]>> :
        b \in 0..255,
        l \in {<<0, 0, 0>>, <<170, 187, 204>>, <<204, 187, 170>>, <<255, 255, 255>>} }

NoHeader == [msg_type |-> "", msg_length |-> as_u32(Usize(0, 0, 0))]
NoArgs == [msg_type |-> "", msg_length |-> Usize(0, 0, 0)]
NoBuffer == <<>>
NoResult == [ok |-> FALSE, error |-> "", header |-> NoHeader]

\* Header::pack with the bytes of the length most significant first
pack_BigEndian(h) ==
    <<to_primitive(h.msg_type),
      (h.msg_length.low \div 65536) % 256,
      (h.msg_length.low \div 256) % 256,
      h.msg_length.low % 256>>

\* Header::pack, derived by PackedStruct with endian = "lsb": msg_type in one
\* byte, then the 24 low bits of msg_length, least significant byte first
pack(h) ==
    <<to_primitive(h.msg_type),
      h.msg_length.low % 256,
      (h.msg_length.low \div 256) % 256,
      (h.msg_length.low \div 65536) % 256>>

\* Header::unpack_from_slice reading the length most significant byte first
unpack_from_slice_BigEndian(b) ==
    LET t == from_primitive(b[1])
    IN  IF t = <<>>
        THEN [ok |-> FALSE, error |-> "InvalidValue", header |-> NoHeader]
        ELSE [ok |-> TRUE, error |-> "",
              header |-> [msg_type |-> t[1],
                          msg_length |->
                              [mid |-> 0, low |-> b[2] * 65536 + b[3] * 256 + b[4]]]]

\* Header::unpack_from_slice, derived by PackedStruct: a first byte that is no
\* MessageType identifier is a PackingError
unpack_from_slice(b) ==
    LET t == from_primitive(b[1])
    IN  IF t = <<>>
        THEN [ok |-> FALSE, error |-> "InvalidValue", header |-> NoHeader]
        ELSE [ok |-> TRUE, error |-> "",
              header |-> [msg_type |-> t[1],
                          msg_length |->
                              [mid |-> 0, low |-> b[2] + b[3] * 256 + b[4] * 65536]]]

InitFraming ==
    /\ fpc = "idle"
    /\ new_args = NoArgs
    /\ header = NoHeader
    /\ buffer = NoBuffer
    /\ unpacked = NoResult

\* a Header::new without the assertion on msg_length
Header_new_Unchecked(msg_type, msg_length) ==
    /\ UNCHANGED nonFramingVars
    /\ fpc = "idle"
    /\ new_args' = [msg_type |-> msg_type, msg_length |-> msg_length]
    /\ fpc' = "built"
    /\ header' = [msg_type |-> msg_type, msg_length |-> as_u32(msg_length)]
    /\ UNCHANGED <<buffer, unpacked>>

\* Header::new(msg_type, msg_length): the assertion, then the cast to u32
Header_new(msg_type, msg_length) ==
    /\ UNCHANGED nonFramingVars
    /\ fpc = "idle"
    /\ new_args' = [msg_type |-> msg_type, msg_length |-> msg_length]
    /\ IF UsizeLe(msg_length, MaxMsgLength)
       THEN /\ fpc' = "built"
            /\ header' = [msg_type |-> msg_type, msg_length |-> as_u32(msg_length)]
       ELSE /\ fpc' = "aborted"
            /\ UNCHANGED header
    /\ UNCHANGED <<buffer, unpacked>>

\* header.pack()
pack_header ==
    /\ UNCHANGED nonFramingVars
    /\ fpc = "built"
    /\ buffer' = pack(header)
    /\ fpc' = "packed"
    /\ UNCHANGED <<new_args, header, unpacked>>

\* 4 bytes arrive from the peer
receive(b) ==
    /\ UNCHANGED nonFramingVars
    /\ fpc = "idle"
    /\ buffer' = b
    /\ fpc' = "received"
    /\ UNCHANGED <<new_args, header, unpacked>>

\* Header::unpack_from_slice(&buffer)
unpack_buffer ==
    /\ UNCHANGED nonFramingVars
    /\ fpc \in {"packed", "received"}
    /\ unpacked' = unpack_from_slice(buffer)
    /\ fpc' = IF fpc = "packed" THEN "roundtrip" ELSE "unpacked"
    /\ UNCHANGED <<new_args, header, buffer>>

NextFraming ==
    \/ fpc = "idle" /\ \E t \in MessageType : \E l \in Lengths : Header_new(t, l)
    \/ pack_header
    \/ fpc = "idle" /\ \E b \in WireBuffers : receive(b)
    \/ unpack_buffer

Init == InitEngine /\ InitCommand /\ InitFraming

Spec == Init /\ [][NextEngine]_vars

SpecCommand == Init /\ [][NextCommand]_vars

SpecFraming == Init /\ [][NextFraming]_vars

\* the scheduler polls a receiver task that can make progress (tokio wakes
\* every watcher on broadcast and on the sender's drop); nothing obliges the
\* job source to broadcast, nor a backend to call get_engine again
FairSpec ==
    /\ Spec
    /\ \A r \in Receivers : WF_vars(check_engine(r)) /\ WF_vars(await_next(r))

(***************************************************************************)
(* Properties of the engine channel.                                       *)
(***************************************************************************)

\* C1: get_engine never returns an exhausted engine: whenever a call has
\* returned Some(e), e is an engine whose is_exhausted() is false.
C1_NeverReturnsExhausted ==
    \A r \in Receivers :
        (pc[r] = "returned" /\ result[r] # None) => ~is_exhausted(result[r][1])

\* a call that went through await_next has returned Some(e)
C1_Witness ==
    \E r \in Receivers :
        pc[r] = "returned" /\ result[r] # None /\ seen[r] /\ total > 0

\* C2: latest-wins: every read of the slot by a receiver (the peek or the
\* awaited next value) obtains the engine of the last broadcast, also when
\* several broadcasts happened since its previous read, and a call returns the
\* engine it read.
C2_LatestWins ==
    [][\A r \in Receivers :
          /\ (pc[r] # "check" /\ pc'[r] = "check") => engine'[r] = latest'
          /\ (pc[r] = "check" /\ pc'[r] = "returned")
                => result'[r] = Some(engine[r])]_vars

\* a receiver has read E2 after at least two broadcasts since its previous read
C2_Witness ==
    \E r \in Receivers :
        pc[r] = "check" /\ skipped = r /\ engine[r].id = "E2" /\ latest.id = "E2"

\* C3: while the engine of the last broadcast is not exhausted, a get_engine
\* call that read the slot after that broadcast is never at the await point and
\* returns Some of that engine, on every handle and on every call.
C3_ReturnsCurrentWithoutSuspending ==
    \A r \in Receivers :
        (~is_exhausted(slot) /\ unread[r] = 0) =>
            /\ pc[r] # "await"
            /\ pc[r] = "check" => engine[r] = slot
            /\ pc[r] = "returned" => result[r] = Some(slot)

\* two handles have both returned the broadcast engine, one of them having
\* observed it through await_next before
C3_Witness ==
    \E r, q \in Receivers :
        /\ r # q
        /\ total > 0
        /\ pc[r] = "returned" /\ result[r] = Some(slot) /\ unread[r] = 0
        /\ pc[q] = "returned" /\ result[q] = Some(slot) /\ unread[q] = 0
        /\ seen[r]

\* C4: the channel starts with ExhaustedWork in the slot, and while only
\* exhausted engines have been broadcast and the sender is alive no get_engine
\* call has returned.
C4_QuiescentUntilLiveEngine ==
    /\ total = 0 => slot = ExhaustedWork
    /\ (~anyLive /\ sender = "alive") =>
           \A r \in Receivers : pc[r] # "returned"

\* a call is suspended after an exhausted engine was broadcast
C4_Witness ==
    \E r \in Receivers :
        Suspended(r) /\ total > 0 /\ ~anyLive /\ sender = "alive"

\* C5: once the sender is dropped, a get_engine call that awaits the next value
\* with nothing unobserved, or with an exhausted engine in the slot, returns
\* None.
C5_SenderDropEndsStream ==
    \A r \in Receivers :
        (sender = "dropped" /\ pc[r] = "await" /\ (seen[r] \/ is_exhausted(slot)))
            ~> (pc[r] = "returned" /\ result[r] = None)

\* a call has returned None after the sender was dropped
C5_Witness ==
    \E r \in Receivers :
        sender = "dropped" /\ pc[r] = "returned" /\ result[r] = None

\* C6: a clone is an independent cursor on the same slot: the first get_engine
\* of a clone reads the slot's current value whatever the handle it was cloned
\* from has observed, returns None only at the end of the stream with an
\* exhausted engine in the slot, is never suspended while it has read a
\* non-exhausted current engine, and a step of one handle changes neither the
\* slot nor what another handle has observed.
C6_CloneIndependentCursor ==
    [][\A r \in Receivers :
          /\ (get_engine(r) \/ check_engine(r) \/ await_next(r)) =>
                /\ slot' = slot /\ closed' = closed
                /\ \A q \in Receivers \ {r} :
                      /\ seen'[q] = seen[q] /\ pc'[q] = pc[q]
                      /\ engine'[q] = engine[q] /\ result'[q] = result[q]
          /\ (fresh[r] /\ pc[r] = "idle" /\ pc'[r] \notin {"idle", "dropped"}) =>
                (pc'[r] = "check" /\ engine'[r] = slot)
          /\ (fresh[r] /\ pc'[r] = "returned" /\ result'[r] = None) =>
                (closed /\ is_exhausted(slot))
          /\ (fresh'[r] /\ Suspended(r)') => is_exhausted(slot')]_vars

\* a clone of a handle that had consumed the current value reads that value
\* on its first get_engine
C6_Witness ==
    \E q \in Receivers \ {1} :
        /\ fresh[q] /\ pc[q] = "check" /\ seen[q] /\ seen[1]
        /\ engine[q] = slot /\ ~is_exhausted(slot)

\* C7: broadcast never waits on readers: while the sender is alive a broadcast
\* of any engine can take its step at once, whatever the number of live
\* receivers and whatever they have read.
C7_BroadcastNeverBlocks ==
    sender = "alive" => \A e \in Engines : ENABLED broadcast(e)

\* two broadcasts went through while a live receiver had read neither
C7_Witness ==
    \E r \in Receivers :
        sender = "alive" /\ Alive(r) /\ unread[r] = 2 /\ ~seen[r] /\ total = 2

(***************************************************************************)
(* Properties of the command dispatcher.                                   *)
(***************************************************************************)

\* the non-empty pieces of the request's command string, in input order
Pieces == SelectSeq(request.command.text, LAMBDA t : t # "+")

\* the calls made for piece i other than the entry into handle_single
CallsOfPiece(i) ==
    { k \in 1..Len(calls) : calls[k].piece = i /\ calls[k].op # "handle_single" }

\* C8: in a batched request every asc and check piece gets the body
\* AccessDeniedCmd(its name) whatever the shared parameter is, with neither
\* the parameter check nor a handler run for it, and every other known piece
\* gets its normal response: what its handler returned, or the version body.
C8_BatchDeniesParameterCommands ==
    (dpc = "done" /\ response.multi) =>
        \A i \in 1..Len(Pieces) :
            LET c == Pieces[i]
                body == response.entries[i].response.body
            IN  /\ c \in {"asc", "check"} =>
                    /\ body = [ok |-> FALSE, kind |-> "AccessDeniedCmd",
                               name |-> c, data |-> <<>>]
                    /\ CallsOfPiece(i) = {}
                /\ c = "version" =>
                    /\ body = handle_version
                    /\ CallsOfPiece(i) = {}
                /\ c = "pools" =>
                    /\ body \in {HandlerOk("handle_pools"), HandlerErr("handle_pools")}
                    /\ Cardinality(CallsOfPiece(i)) = 2
                    /\ \E k \in CallsOfPiece(i) :
                          /\ calls[k].op = "handle_pools"
                          /\ calls[k + 1].op = "return"

\* the request pools+asc with parameter 3 has been answered
C8_Witness ==
    /\ dpc = "done" /\ response.multi
    /\ Pieces = <<"pools", "asc">>
    /\ request.parameter = IntParam(0, 3)
    /\ response.entries[1].response.body = HandlerOk("handle_pools")
    /\ response.entries[2].response.body = AccessDeniedCmd("asc")

C10_SinglePieceRunsBareCommand ==
    (dpc = "done" /\ request.command.str /\ Len(Pieces) = 1) =>
        /\ ~response.multi
        /\ calls[1] = Call("handle_single", Pieces[1], 1, request.parameter, FALSE)
        /\ Pieces[1] \in DOMAIN commands =>
              response.single.body.kind # "InvalidCommand"

\* the request is the bare command c, handled in single mode
SingleRequest(c) == dpc # "idle" /\ request.command.str /\ request.command.text = <<c>>

\* the parameter is an integer of the signed 32-bit range, -2^31 .. 2^31 - 1
InI32Range(v) == v.t = "int" /\ v.hi \in -32768..32767

\* the places in calls of the calls of op
CallsOf(op) == { k \in 1..Len(calls) : calls[k].op = op }

\* C11: for a single asc command the parameter check runs before the handler:
\* with a parameter that is absent or no signed 32-bit integer the response is
\* MissingAscParameter and handle_asc is never invoked; with a signed 32-bit
\* integer handle_asc is invoked exactly once, after check_asc, with that
\* parameter.
C11_AscCheckShortCircuits ==
    SingleRequest("asc") =>
        /\ dpc = "dispatch" => calls = <<>>
        /\ dpc # "dispatch" => CallsOf("check_asc") = {2}
        /\ ~InI32Range(request.parameter) /\ dpc # "dispatch" =>
              /\ dpc = "done"
              /\ CallsOf("handle_asc") = {}
              /\ response = [multi |-> FALSE, entries |-> <<>>,
                             single |-> into_response(
                                [ok |-> FALSE, kind |-> "MissingAscParameter",
                                 name |-> "", data |-> <<>>])]
        /\ InI32Range(request.parameter) /\ dpc # "dispatch" =>
              /\ CallsOf("handle_asc") = {3}
              /\ calls[3].parameter = request.parameter
              /\ dpc = "done" =>
                    response.single.body \in
                        {HandlerOk("handle_asc"), HandlerErr("handle_asc")}

\* asc with the parameter 2^31 has been answered MissingAscParameter
C11_Witness ==
    /\ SingleRequest("asc") /\ dpc = "done"
    /\ request.parameter = IntParam(32768, 0)
    /\ response.single.body.kind = "MissingAscParameter"
    /\ CallsOf("check_asc") = {2}

\* the command text holds no name, only '+' signs or nothing at all
NoNonEmptyPiece(text) == \A k \in 1..Len(text) : text[k] = "+"

\* C12: the validation of the request in handle always answers with a single
\* response, never a multi-response, and invokes nothing: a command field that
\* is missing or no string gives MissingCommand, a command string without a
\* non-empty piece ("", "+", "++") gives InvalidCommand.
C12_RequestValidationIsSingle ==
    dpc # "idle" =>
        /\ ~request.command.str =>
              /\ dpc = "done" /\ calls = <<>>
              /\ ~response.multi /\ response.entries = <<>>
              /\ response.single.body =
                    [ok |-> FALSE, kind |-> "MissingCommand", name |-> "", data |-> <<>>]
        /\ request.command.str /\ NoNonEmptyPiece(request.command.text) =>
              /\ dpc = "done" /\ calls = <<>>
              /\ ~response.multi /\ response.entries = <<>>
              /\ response.single.body =
                    [ok |-> FALSE, kind |-> "InvalidCommand", name |-> "", data |-> <<>>]

\* the command "++" has been answered with a single InvalidCommand
C12_Witness ==
    /\ dpc = "done" /\ request.command.str
    /\ request.command.text = <<"+", "+">>
    /\ response.single.body.kind = "InvalidCommand" /\ ~response.multi

\* the names of command.rs, lines 39-52
RegisteredNames ==
    {"pools", "devs", "edevs", "summary", "config", "devdetails", "stats",
     "estats", "coin", "asccount", "asc", "lcd", "version", "check"}

\* C13: the built-in check command, in single mode, reports exists and access
\* always equal: both Y exactly when the parameter is a string that names one
\* of the 14 registered commands, both N for any other string and for a
\* parameter that is no string, and MissingCheckCmd when the parameter is
\* absent; no handler of the host is invoked.
C13_CheckReportsRegistered ==
    SingleRequest("check") /\ dpc # "dispatch" =>
        /\ Cardinality(RegisteredNames) = 14
        /\ dpc = "done"
        /\ Len(calls) = 1 /\ calls[1].op = "handle_single"
        /\ ~response.multi
        /\ LET p == request.parameter
               body == response.single.body
           IN  IF p.t = "absent"
               THEN body = [ok |-> FALSE, kind |-> "MissingCheckCmd",
                            name |-> "", data |-> <<>>]
               ELSE /\ body.ok /\ body.kind = "Check"
                    /\ body.data \in {<<"Y", "Y">>, <<"N", "N">>}
                    /\ body.data[1] = "Y" <=>
                          (p.t = "str" /\ p.s \in RegisteredNames)

\* check of the built-in "version" has answered exists = access = Y
C13_Witness ==
    /\ SingleRequest("check") /\ dpc = "done"
    /\ request.parameter = StrParam("version")
    /\ response.single.body.data = <<"Y", "Y">>

\* the body of the InvalidCommand error
InvalidCommandBody ==
    [ok |-> FALSE, kind |-> "InvalidCommand", name |-> "", data |-> <<>>]

\* C20: handle_single looks the name up first: a name that is not registered
\* gets the InvalidCommand body, in single and in batched mode alike, with no
\* parameter check and no handler invoked for it, and in a batch the pieces
\* after it are still processed.
C20_UnknownNameIsInvalidCommand ==
    /\ \A k \in 1..Len(calls) :
          (calls[k].op = "handle_single" /\ calls[k].name \notin RegisteredNames) =>
              /\ k < Len(calls) => /\ calls[k + 1].op = "handle_single"
                                   /\ calls[k + 1].piece = calls[k].piece + 1
              /\ IF ~calls[k].multi
                 THEN /\ dpc = "done" /\ ~response.multi
                      /\ response.single.body = InvalidCommandBody
                 ELSE /\ Len(responses) >= calls[k].piece
                      /\ responses[calls[k].piece].name = calls[k].name
                      /\ responses[calls[k].piece].response.body = InvalidCommandBody
                      /\ calls[k].piece < Len(Pieces) =>
                            \/ dpc = "dispatch" /\ idx = calls[k].piece + 1
                            \/ k < Len(calls)
    /\ (dpc = "done" /\ response.multi) =>
          /\ Len(response.entries) = Len(Pieces)
          /\ \A i \in 1..Len(Pieces) :
                Pieces[i] \notin RegisteredNames =>
                    response.entries[i].response.body = InvalidCommandBody

\* the batch nope+pools has been answered: InvalidCommand, then the pools reply
C20_Witness ==
    /\ dpc = "done" /\ response.multi
    /\ Pieces = <<"nope", "pools">>
    /\ response.entries[1].response.body = InvalidCommandBody
    /\ response.entries[2].response.body = HandlerOk("handle_pools")
    /\ CallsOf("handle_pools") # {}

(***************************************************************************)
(* Further properties of the engine channel.                               *)
(***************************************************************************)

\* the receiver handles that exist: created (the original or a clone) and not
\* yet dropped
LiveHandles == { r \in Receivers : pc[r] \notin {"unborn", "dropped"} }

\* C18: broadcast fails only on a closed channel, and then it aborts: a
\* broadcast panics exactly when no receiver handle, original or clone, is
\* alive; with at least one handle alive it succeeds and installs the given
\* engine as the slot's value.
C18_BroadcastPanicsIffNoReceiver ==
    [][ /\ \A e \in Engines :
              broadcast(e) =>
                  IF LiveHandles # {}
                  THEN sender' = "alive" /\ slot' = e
                  ELSE sender' = "panicked" /\ slot' = slot
        /\ sender' = "panicked" => LiveHandles = {} ]_vars

\* the sender has broadcast with success, and later panicked in a broadcast
\* made after the last receiver handle was dropped
C18_Witness ==
    sender = "panicked" /\ total > 0 /\ LiveHandles = {} /\ slot = latest

\* the get_engine call of receiver r has not returned
InGetEngine(r) == pc[r] \in {"check", "await"}

\* C19: no wake-up is lost in get_engine: when a receiver has read an
\* exhausted engine and a non-exhausted engine E is broadcast afterwards, be
\* it between the receiver's peek and its await or while it is suspended,
\* the call returns Some(E), the scheduler being fair and no further
\* broadcast being made. In parts: a call is never suspended while the slot
\* holds a non-exhausted engine; a call does not stay unreturned for ever
\* while the slot holds a non-exhausted engine; a call that ends while the
\* slot holds a non-exhausted engine returns Some, and Some of the slot's
\* engine unless a broadcast came after the receiver's last read; a
\* broadcast leaves every suspended receiver with a value to read.
C19_NoLostWakeup ==
    /\ [](\A r \in Receivers :
              (pc[r] = "await" /\ ~slot.exhausted) => ~seen[r])
    /\ \A r \in Receivers : []<>(~InGetEngine(r) \/ slot.exhausted)
    /\ [][ \A r \in Receivers :
              (InGetEngine(r) /\ pc'[r] = "returned" /\ ~slot.exhausted) =>
                  /\ result'[r] # <<>>
                  /\ ~result'[r][1].exhausted
                  /\ result'[r] = <<slot>> \/ unread[r] > 0 ]_vars
    /\ [][ \A e \in Engines : \A r \in Receivers :
              (broadcast(e) /\ pc[r] = "await" /\ seen[r] /\ sender' = "alive") =>
                  pc'[r] = "await" /\ ~seen'[r] /\ ~closed' ]_vars

\* a broadcast of a non-exhausted engine fell between the receiver's read of
\* an exhausted engine and its await of the next value
C19_Witness ==
    \E r \in Receivers :
        /\ pc[r] = "check" /\ engine[r].exhausted
        /\ ~slot.exhausted /\ ~seen[r] /\ sender = "alive"

(***************************************************************************)
(* Properties of the message header.                                       *)
(***************************************************************************)

\* the number a usize of at most 31 bits stands for
UsizeValue(n) == n.mid * 16777216 + n.low

\* C14: header round trip: for each of the 14 message types and each
\* msg_length of 0 .. 2^24 - 1, unpacking the 4 bytes that pack made of
\* Header::new(msg_type, msg_length) succeeds and gives a header of the same
\* msg_type and the same msg_length.
C14_HeaderRoundTrip ==
    fpc = "roundtrip" =>
        /\ Len(buffer) = 4
        /\ unpacked.ok
        /\ unpacked.header.msg_type = new_args.msg_type
        /\ UsizeValue(unpacked.header.msg_length) = new_args.msg_length.low
        /\ new_args.msg_length.hi = 0 /\ new_args.msg_length.mid = 0
        /\ unpacked.header = header

\* SubmitSharesError with the length 0xaabbcc went through pack and unpack
C14_Witness ==
    /\ fpc = "roundtrip"
    /\ new_args = [msg_type |-> "SubmitSharesError",
                   msg_length |-> [hi |-> 0, mid |-> 0, low |-> 11189196]]
    /\ unpacked.ok /\ unpacked.header.msg_length.low = 11189196

\* C15: decoding rejects every unknown message type: unpacking a 4-byte
\* buffer succeeds if and only if its first byte is one of 0x00 .. 0x0d; for
\* any other first byte it returns an error and no header, whatever the three
\* length bytes are.
C15_UnknownTypeFailsDecoding ==
    fpc = "unpacked" =>
        /\ Len(buffer) = 4
        /\ unpacked.ok <=> buffer[1] \in 0..13
        /\ unpacked.ok =>
              /\ MessageTypeId[unpacked.header.msg_type] = buffer[1]
              /\ unpacked.error = ""
        /\ ~unpacked.ok =>
              /\ unpacked.error # ""
              /\ unpacked.header.msg_type = ""

\* the buffer [0xff, 0xaa, 0xbb, 0xcc] has been refused
C15_Witness ==
    /\ fpc = "unpacked"
    /\ buffer = <<255, 170, 187, 204>>
    /\ ~unpacked.ok

\* C16: pack emits exactly 4 bytes: the identifier of msg_type, then the bits
\* 0-7, 8-15 and 16-23 of msg_length, for every message type and every length
\* of 0 .. 2^24 - 1; Header::new(SetupMiningConnection, 0xaabbcc) packs to
\* [0x00, 0xcc, 0xbb, 0xaa].
C16_PackLayout ==
    fpc = "packed" =>
        /\ Len(buffer) = 4
        /\ \A k \in 1..4 : buffer[k] \in 0..255
        /\ buffer[1] = MessageTypeId[new_args.msg_type]
        /\ buffer[2] + 256 * buffer[3] + 65536 * buffer[4] = new_args.msg_length.low
        /\ (new_args.msg_type = "SetupMiningConnection"
                /\ new_args.msg_length.low = 11189196) =>
              buffer = <<0, 204, 187, 170>>

\* Header::new(SetupMiningConnection, 0xaabbcc) has been packed
C16_Witness ==
    /\ fpc = "packed"
    /\ new_args.msg_type = "SetupMiningConnection"
    /\ new_args.msg_length = [hi |-> 0, mid |-> 0, low |-> 11189196]
    /\ buffer = <<0, 204, 187, 170>>

\* C17: Header::new aborts on every msg_length above 2^24 - 1, before the
\* cast to 32 bits: a length with a bit set above bit 23 yields no Header, and
\* every Header holds the very length it was built with, which is at most
\* 2^24 - 1; no length out of range is wrapped into a valid one.
C17_NewRejectsTooLarge ==
    /\ new_args # [msg_type |-> "", msg_length |-> [hi |-> 0, mid |-> 0, low |-> 0]] =>
          IF new_args.msg_length.hi > 0 \/ new_args.msg_length.mid > 0
          THEN fpc = "aborted" /\ header.msg_type = ""
          ELSE /\ fpc # "aborted"
               /\ header.msg_type = new_args.msg_type
               /\ header.msg_length.low = new_args.msg_length.low
    /\ header.msg_length.mid = 0 /\ header.msg_length.low \in 0..16777215
    /\ unpacked.header.msg_length.mid = 0
    /\ unpacked.header.msg_length.low \in 0..16777215

\* Header::new was called with 2^32 + 5, which a cast to u32 would turn into
\* 5, and has aborted
C17_Witness ==
    /\ fpc = "aborted"
    /\ new_args.msg_length = [hi |-> 1, mid |-> 0, low |-> 5]
    /\ header.msg_type = ""

====
